---- MODULE Spec2Model ----
(***************************************************************************)
(* XclockDAC programmable audio clock generator (drivers/clk/clk-xclockdac) *)
(* and the ASoC machine driver that binds a stream's sample rate to it      *)
(* (sound/soc/bcm/xclockdac).                                               *)
(*                                                                          *)
(* The clock device has one register (0x2F) selecting one of 8 output       *)
(* frequencies; the driver keeps a shadow of it in drvdata->reg_value.      *)
(***************************************************************************)
EXTENDS Integers, Sequences, FiniteSets, TLC

(***************************************************************************)
(* Bounds of the model.                                                     *)
(***************************************************************************)
\* requested rates are taken within Delta Hz of every interesting rate
Delta == 1
\* bytes 0..MaxInitByte are the values the device register may hold at power-up
MaxInitByte == 15

(***************************************************************************)
(* Program constants.                                                       *)
(***************************************************************************)
DEFAULT_RATE == 44100
SMBUS_DAC_SET == 47

\* a table in which 48000 Hz carries the code of 44100 Hz
xclockdac_rates_dupcode ==
  << [out |-> 11025,  reg_value |-> 4],  [out |-> 22050,  reg_value |-> 12],
     [out |-> 44100,  reg_value |-> 3],  [out |-> 48000,  reg_value |-> 3],
     [out |-> 88200,  reg_value |-> 2],  [out |-> 96000,  reg_value |-> 10],
     [out |-> 176400, reg_value |-> 1],  [out |-> 192000, reg_value |-> 9],
     [out |-> 0,      reg_value |-> 0] >>

\* xclockdac_rates[], with its sentinel entry
xclockdac_rates ==
  << [out |-> 11025,  reg_value |-> 4],  [out |-> 22050,  reg_value |-> 12],
     [out |-> 44100,  reg_value |-> 3],  [out |-> 48000,  reg_value |-> 11],
     [out |-> 88200,  reg_value |-> 2],  [out |-> 96000,  reg_value |-> 10],
     [out |-> 176400, reg_value |-> 1],  [out |-> 192000, reg_value |-> 9],
     [out |-> 0,      reg_value |-> 0] >>

\* a list that also offers the 12 MHz-derived rates of the comment table
snd_xclockdac_rates_extra ==
  << 11025, 12000, 22050, 24000, 44100, 48000, 88200, 96000, 176400, 192000 >>

\* the machine driver's own list of rates, installed as the stream constraint
snd_xclockdac_rates ==
  << 11025, 22050, 44100, 48000, 88200, 96000, 176400, 192000 >>

\* the codec's list of rates (tda1541a_dai_rates)
tda1541a_dai_rates ==
  << 11025, 22050, 44100, 48000, 88200, 96000, 176400, 192000 >>

(***************************************************************************)
(* Values the model feeds to the operations.                                *)
(***************************************************************************)
\* the entries before the sentinel
Entries == { i \in 1..Len(xclockdac_rates) : xclockdac_rates[i].out # 0 }
Freqs == { xclockdac_rates[i].out : i \in Entries }
Codes == { xclockdac_rates[i].reg_value : i \in Entries }
\* the half-way points between adjacent table frequencies
Mids == { xclockdac_rates[i].out
            + ((xclockdac_rates[i + 1].out - xclockdac_rates[i].out) \div 2) :
          i \in { j \in Entries : (j + 1) \in Entries } }
\* requested rates: around every table frequency, every half-way point, 0 and
\* 45000 (a rate in no relation to the table)
RateInputs == { r \in { b + d : b \in Freqs \cup Mids \cup {0, 45000},
                                d \in (0 - Delta)..Delta } : r >= 0 }
\* rates handed to set_rate directly: around every table frequency, 0 and
\* 45000
SetRateInputs == { r \in { b + d : b \in Freqs \cup {0, 45000},
                                   d \in (0 - Delta)..Delta } : r >= 0 }
InitBytes == 0..MaxInitByte
\* "no register write was issued"
NoWrite == << >>
\* "no rate" (the source's 0)
NoRate == 0

(***************************************************************************)
(* The clock driver's functions.                                            *)
(***************************************************************************)

\* regmap_write as seen by the driver: the byte reaches the register, or the
\* transfer fails and the register keeps its value
regmap_write(hw, value, io_ok) ==
  [ hw  |-> IF io_ok THEN value ELSE hw,
    ret |-> IF io_ok THEN "OK" ELSE "EIO" ]

\* a write_reg that writes the register but never stores the shadow
xclockdac_write_reg_noshadow(shadow, hw, value, io_ok) ==
  LET w == regmap_write(hw, value, io_ok)
  IN  [ reg_value |-> shadow,
        hw        |-> w.hw,
        issued    |-> << SMBUS_DAC_SET, value >>,
        ret       |-> w.ret ]

\* xclockdac_write_reg: the shadow is stored first, then the register is
\* written; the result of the write is returned
xclockdac_write_reg(shadow, hw, value, io_ok) ==
  LET w == regmap_write(hw, value, io_ok)
  IN  [ reg_value |-> value,
        hw        |-> w.hw,
        issued    |-> << SMBUS_DAC_SET, value >>,
        ret       |-> w.ret ]

\* the scan of xclockdac_set_rate: the index of the entry whose out equals
\* rate, or the index of the sentinel
RECURSIVE FindRate(_, _)
FindRate(i, rate) ==
  IF xclockdac_rates[i].out = 0 THEN i
  ELSE IF xclockdac_rates[i].out = rate THEN i
  ELSE FindRate(i + 1, rate)

\* lines 167..169: which of the two neighbours is returned
Closer_ge(prev, curr, rate) ==
  LET mid == xclockdac_rates[prev].out
               + ((xclockdac_rates[curr].out - xclockdac_rates[prev].out) \div 2)
  IN  IF mid >= rate THEN xclockdac_rates[prev].out
                     ELSE xclockdac_rates[curr].out

Closer(prev, curr, rate) ==
  LET mid == xclockdac_rates[prev].out
               + ((xclockdac_rates[curr].out - xclockdac_rates[prev].out) \div 2)
  IN  IF mid > rate THEN xclockdac_rates[prev].out
                    ELSE xclockdac_rates[curr].out

\* line 176: the last entry, when every entry was below the request
ClampHigh_offbyone(prev) == xclockdac_rates[prev - 1].out

ClampHigh(prev) == xclockdac_rates[prev].out

\* a scan that hands a request below the first entry back as it is
RECURSIVE RoundScan_lowpass(_, _, _)
RoundScan_lowpass(curr, prev, rate) ==
  IF xclockdac_rates[curr].out = 0 THEN ClampHigh(prev)
  ELSE IF xclockdac_rates[curr].out = rate THEN rate
  ELSE IF xclockdac_rates[curr].out > rate
       THEN IF prev = 0 THEN rate
                        ELSE Closer(prev, curr, rate)
  ELSE RoundScan_lowpass(curr + 1, curr, rate)

\* the loop of xclockdac_round_rate from entry curr on; prev = 0 is NULL
RECURSIVE RoundScan(_, _, _)
RoundScan(curr, prev, rate) ==
  IF xclockdac_rates[curr].out = 0 THEN ClampHigh(prev)
  ELSE IF xclockdac_rates[curr].out = rate THEN rate
  ELSE IF xclockdac_rates[curr].out > rate
       THEN IF prev = 0 THEN xclockdac_rates[curr].out
                        ELSE Closer(prev, curr, rate)
  ELSE RoundScan(curr + 1, curr, rate)

\* a scan that starts at the second entry
xclockdac_round_rate_skipfirst(rate) == RoundScan(2, 0, rate)

xclockdac_round_rate(rate) == RoundScan(1, 0, rate)

\* the loop of xclockdac_recalc_rate
RECURSIVE RecalcScan(_, _)
RecalcScan(i, val) ==
  IF xclockdac_rates[i].out = 0 THEN 0
  ELSE IF val = xclockdac_rates[i].reg_value THEN xclockdac_rates[i].out
  ELSE RecalcScan(i + 1, val)

\* a recalc_rate that reports the default rate for a code it does not know
xclockdac_recalc_rate_default(shadow) ==
  IF RecalcScan(1, shadow) = 0 THEN DEFAULT_RATE ELSE RecalcScan(1, shadow)

xclockdac_recalc_rate(shadow) == RecalcScan(1, shadow)

\* a set_rate that rounds the request before looking it up
xclockdac_set_rate_rounding(shadow, hw, rate, io_ok) ==
  LET entry == FindRate(1, xclockdac_round_rate(rate))
  IN  IF xclockdac_rates[entry].out = 0
      THEN [ reg_value |-> shadow, hw |-> hw, issued |-> NoWrite,
             ret |-> "EINVAL" ]
      ELSE xclockdac_write_reg(shadow, hw, xclockdac_rates[entry].reg_value,
                               io_ok)

\* a set_rate without the test for the sentinel
xclockdac_set_rate_nocheck(shadow, hw, rate, io_ok) ==
  xclockdac_write_reg(shadow, hw, xclockdac_rates[FindRate(1, rate)].reg_value,
                      io_ok)

xclockdac_set_rate(shadow, hw, rate, io_ok) ==
  LET entry == FindRate(1, rate)
  IN  IF xclockdac_rates[entry].out = 0
      THEN [ reg_value |-> shadow, hw |-> hw, issued |-> NoWrite,
             ret |-> "EINVAL" ]
      ELSE xclockdac_write_reg(shadow, hw, xclockdac_rates[entry].reg_value,
                               io_ok)

\* clk_set_rate on a consumer handle of this clock: the call is handed to the
\* clock's set_rate operation while the clock is registered, and is refused
\* once the clock is gone
clk_set_rate(registered, shadow, hw, rate, io_ok) ==
  IF registered
  THEN xclockdac_set_rate(shadow, hw, rate, io_ok)
  ELSE [ reg_value |-> shadow, hw |-> hw, issued |-> NoWrite, ret |-> "ENXIO" ]

(***************************************************************************)
(* State.                                                                   *)
(***************************************************************************)
VARIABLES
  attached,    \* the clock driver is bound: its probe returned 0
  registered,  \* the clock is registered: its operations can be called
  provider,    \* of_clk_add_provider has been done and not undone
  reg_value,   \* drvdata->reg_value, the shadow of the register
  hw_reg,      \* the byte held by device register 0x2F
  sclk,        \* the machine driver's drvdata.sclk: "NULL", "clk" or "ERR"
  card,        \* the sound card is registered (stream callbacks can fire)
  snd_pc,      \* where snd_rpi_xclockdac_probe stands: "idle", "clk_get"
               \* or "no_node" (card registered, clock not yet asked for),
               \* "bound" (returned 0)
  constraint,  \* the rate list installed on the open stream, {} if none
  committed,   \* rate of the latest set_rate if it succeeded, else NoRate
  defaulted,   \* a probe has handed DEFAULT_RATE to the clock's set_rate
  last         \* what the latest operation was given and what it did

vars == << attached, registered, provider, reg_value, hw_reg, sclk, card,
           snd_pc, constraint, committed, defaulted, last >>

\* the record of an operation; reads counts the register reads it issued,
\* first tells a stream callback that no callback ran before it, dep names
\* the dependency a probe found missing
Did(op, rate, ret, val, issued, pre, io_ok, commit) ==
  [ op |-> op, rate |-> rate, ret |-> ret, val |-> val, issued |-> issued,
    pre |-> pre, io_ok |-> io_ok, commit |-> commit,
    reads |-> 0, first |-> FALSE, dep |-> "NONE" ]

Init ==
  /\ attached = FALSE
  /\ registered = FALSE
  /\ provider = FALSE
  /\ reg_value = 0
  /\ hw_reg \in InitBytes
  /\ sclk = "NULL"
  /\ card = FALSE
  /\ snd_pc = "idle"
  /\ constraint = {}
  /\ committed = NoRate
  /\ defaulted = FALSE
  /\ last = Did("none", NoRate, "OK", 0, NoWrite, 0, TRUE, "NONE")

(***************************************************************************)
(* The clock driver.                                                        *)
(***************************************************************************)
\* the calls of xclockdac_i2c_probe that can fail before the default rate
ProbeFaults ==
  { "none", "kzalloc", "clk_get", "regmap_init", "regmap_read",
    "clk_register", "add_provider" }

\* regmap_read as seen by the driver: the register's byte, or a failure
regmap_read(hw, io_ok) ==
  [ val |-> hw, ret |-> IF io_ok THEN "OK" ELSE "EIO" ]

\* a read-back whose byte never reaches drvdata->reg_value
ProbeRead_local(hw, io_ok) ==
  LET r == regmap_read(hw, io_ok)
  IN  [ reg_value |-> 0, ret |-> r.ret, reads |-> 1 ]

\* lines 219..223: the read-back of the register into drvdata->reg_value
\* (drvdata comes zeroed from devm_kzalloc)
ProbeRead(hw, io_ok) ==
  LET r == regmap_read(hw, io_ok)
  IN  [ reg_value |-> IF r.ret = "OK" THEN r.val ELSE 0,
        ret       |-> r.ret,
        reads     |-> 1 ]

\* xclockdac_i2c_probe up to of_clk_add_provider: from here on the clock can
\* be found and its operations called.  fault names the call that fails.
xclockdac_i2c_probe(fault) ==
  /\ ~attached
  /\ ~registered
  /\ LET r == ProbeRead(hw_reg, fault # "regmap_read")
         didread == fault \notin { "kzalloc", "clk_get", "regmap_init" }
         ret  == CASE fault = "kzalloc"      -> "ENOMEM"
                   [] fault = "clk_get"      -> "ENOENT"
                   [] fault = "regmap_init"  -> "ENOMEM"
                   [] fault = "regmap_read"  -> r.ret
                   [] fault = "clk_register" -> "ENOMEM"
                   [] fault = "add_provider" -> "ENOMEM"
                   [] OTHER -> "OK"
     IN  /\ registered' = (ret = "OK")
         /\ provider' = IF ret = "OK" THEN TRUE ELSE provider
         /\ reg_value' = IF ret = "OK" THEN r.reg_value ELSE 0
         /\ last' = [ Did("probe_register", NoRate, ret,
                          IF didread /\ r.ret = "OK" THEN hw_reg ELSE 0,
                          NoWrite, reg_value, fault # "regmap_read", "NONE")
                      EXCEPT !.reads = IF didread THEN r.reads ELSE 0 ]
  /\ UNCHANGED << attached, hw_reg, sclk, card, snd_pc, constraint,
                  committed, defaulted >>

\* the rest of xclockdac_i2c_probe: the default rate is set; a failure makes
\* the probe fail, which releases the clock but not the provider entry
xclockdac_i2c_probe_default(io_ok) ==
  /\ registered
  /\ ~attached
  /\ LET s   == clk_set_rate(TRUE, reg_value, hw_reg, DEFAULT_RATE, io_ok)
         ret == IF s.ret # "OK" THEN "EINVAL" ELSE "OK"
     IN  /\ attached' = (ret = "OK")
         /\ registered' = (ret = "OK")
         /\ reg_value' = IF ret = "OK" THEN s.reg_value ELSE 0
         /\ hw_reg' = s.hw
         /\ committed' = IF ret = "OK" THEN DEFAULT_RATE ELSE NoRate
         /\ defaulted' = TRUE
         /\ last' = Did("probe", DEFAULT_RATE, ret, 0, s.issued, reg_value,
                        io_ok, s.ret)
  /\ UNCHANGED << provider, sclk, card, snd_pc, constraint >>

\* clk_xclockdac_i2c_remove
clk_xclockdac_i2c_remove ==
  /\ attached
  /\ attached' = FALSE
  /\ registered' = FALSE
  /\ provider' = FALSE
  /\ reg_value' = 0
  /\ committed' = NoRate
  /\ last' = Did("remove", NoRate, "OK", 0, NoWrite, reg_value, TRUE, "NONE")
  /\ UNCHANGED << hw_reg, sclk, card, snd_pc, constraint, defaulted >>

\* the clock's set_rate operation
SetRate(rate, io_ok) ==
  /\ registered
  /\ LET s == xclockdac_set_rate(reg_value, hw_reg, rate, io_ok)
     IN  /\ reg_value' = s.reg_value
         /\ hw_reg' = s.hw
         /\ committed' = IF s.ret = "OK" THEN rate ELSE NoRate
         /\ last' = Did("set_rate", rate, s.ret, 0, s.issued, reg_value,
                        io_ok, "NONE")
  /\ UNCHANGED << attached, registered, provider, sclk, card, snd_pc,
                  constraint, defaulted >>

\* a round_rate that programs the rate it found
RoundRate_commits(rate) ==
  /\ registered
  /\ LET s == xclockdac_set_rate(reg_value, hw_reg,
                                 xclockdac_round_rate(rate), TRUE)
     IN  /\ reg_value' = s.reg_value
         /\ hw_reg' = s.hw
         /\ last' = Did("round_rate", rate, "OK", xclockdac_round_rate(rate),
                        s.issued, reg_value, TRUE, "NONE")
  /\ UNCHANGED << attached, registered, provider, sclk, card, snd_pc,
                  constraint, committed, defaulted >>

\* the clock's round_rate operation
RoundRate(rate) ==
  /\ registered
  /\ last' = Did("round_rate", rate, "OK", xclockdac_round_rate(rate),
                 NoWrite, reg_value, TRUE, "NONE")
  /\ UNCHANGED << attached, registered, provider, reg_value, hw_reg, sclk,
                  card, snd_pc, constraint, committed, defaulted >>

\* the clock's recalc_rate operation
RecalcRate ==
  /\ registered
  /\ last' = Did("recalc_rate", NoRate, "OK",
                 xclockdac_recalc_rate(reg_value), NoWrite, reg_value, TRUE,
                 "NONE")
  /\ UNCHANGED << attached, registered, provider, reg_value, hw_reg, sclk,
                  card, snd_pc, constraint, committed, defaulted >>

(***************************************************************************)
(* The machine driver.                                                      *)
(***************************************************************************)
\* snd_rpi_xclockdac_set_sclk: the rate is pushed to the clock unless the
\* handle is an error pointer; nothing is returned
snd_rpi_xclockdac_set_sclk(handle, isreg, shadow, hw, rate, io_ok) ==
  IF handle = "clk"
  THEN clk_set_rate(isreg, shadow, hw, rate, io_ok)
  ELSE [ reg_value |-> shadow, hw |-> hw, issued |-> NoWrite,
         ret |-> IF handle = "NULL" THEN "OK" ELSE "SKIPPED" ]

\* snd_rpi_xclockdac_probe up to devm_snd_soc_register_card: once the card
\* is registered its streams can be opened
snd_rpi_xclockdac_probe(of_node, i2s_node, card_ret) ==
  /\ snd_pc = "idle"
  /\ LET early == of_node /\ ~i2s_node
         ret == IF early THEN "EPROBE_DEFER"
                ELSE IF card_ret # "OK" THEN card_ret
                ELSE "OK"
     IN  /\ card' = (ret = "OK")
         /\ snd_pc' = IF ret # "OK" THEN "idle"
                      ELSE IF of_node THEN "clk_get" ELSE "no_node"
         /\ last' = [ Did("snd_probe_card", NoRate, ret, 0, NoWrite,
                          reg_value, TRUE, "NONE")
                      EXCEPT !.dep = IF early THEN "I2S"
                                     ELSE IF card_ret = "EPROBE_DEFER"
                                     THEN "CARD"
                                     ELSE "NONE" ]
  /\ UNCHANGED << attached, registered, provider, reg_value, hw_reg, sclk,
                  constraint, committed, defaulted >>

\* the rest of snd_rpi_xclockdac_probe: the clock is asked for and given the
\* default rate.  The clock is found only through a provider entry; a
\* failing probe takes the card away again.
snd_rpi_xclockdac_probe_clk(clk_ok, io_ok) ==
  /\ snd_pc \in { "clk_get", "no_node" }
  /\ clk_ok => provider
  /\ LET of_node == (snd_pc = "clk_get")
         ret == IF ~of_node THEN "ENODEV"
                ELSE IF ~clk_ok THEN "ENODEV"
                ELSE "OK"
         s == clk_set_rate(registered, reg_value, hw_reg, DEFAULT_RATE, io_ok)
     IN  /\ card' = (ret = "OK")
         /\ snd_pc' = IF ret = "OK" THEN "bound" ELSE "idle"
         /\ constraint' = IF ret = "OK" THEN constraint ELSE {}
         /\ sclk' = IF of_node THEN (IF clk_ok THEN "clk" ELSE "ERR") ELSE sclk
         /\ reg_value' = IF ret = "OK" THEN s.reg_value ELSE reg_value
         /\ hw_reg' = IF ret = "OK" THEN s.hw ELSE hw_reg
         /\ committed' = IF ret # "OK" \/ ~registered THEN committed
                         ELSE IF s.ret = "OK" THEN DEFAULT_RATE ELSE NoRate
         /\ defaulted' = (defaulted \/ (ret = "OK" /\ registered))
         /\ last' = [ Did("snd_probe", DEFAULT_RATE, ret, 0,
                          IF ret = "OK" THEN s.issued ELSE NoWrite,
                          reg_value, io_ok,
                          IF ret = "OK" THEN s.ret ELSE "NONE")
                      EXCEPT !.dep = IF of_node /\ ~provider THEN "CLK"
                                     ELSE "NONE" ]
  /\ UNCHANGED << attached, registered, provider >>

\* snd_rpi_xclockdac_startup: the machine driver's rate list is installed on
\* the stream that is being opened
snd_rpi_xclockdac_startup ==
  /\ card
  /\ constraint' = { snd_xclockdac_rates[i] :
                     i \in 1..Len(snd_xclockdac_rates) }
  /\ last' = [ Did("startup", NoRate, "OK", 0, NoWrite, reg_value, TRUE,
                   "NONE")
               EXCEPT !.first = (constraint = {}) ]
  /\ UNCHANGED << attached, registered, provider, reg_value, hw_reg, sclk,
                  card, snd_pc, committed, defaulted >>

\* snd_rpi_xclockdac_hw_params, for a rate the constraint lets through
snd_rpi_xclockdac_hw_params(rate, io_ok) ==
  /\ card
  /\ rate \in constraint
  /\ LET s == snd_rpi_xclockdac_set_sclk(sclk, registered, reg_value, hw_reg,
                                         rate, io_ok)
     IN  /\ reg_value' = s.reg_value
         /\ hw_reg' = s.hw
         /\ committed' = IF s.ret = "OK" /\ sclk = "clk" THEN rate
                         ELSE IF s.issued # NoWrite THEN NoRate
                         ELSE committed
         /\ last' = Did("hw_params", rate, "OK", 0, s.issued, reg_value,
                        io_ok, s.ret)
  /\ UNCHANGED << attached, registered, provider, sclk, card, snd_pc,
                  constraint, defaulted >>

\* the clock and the callers of its operations
Next ==
  \/ \E fault \in ProbeFaults : xclockdac_i2c_probe(fault)
  \/ \E io_ok \in BOOLEAN : xclockdac_i2c_probe_default(io_ok)
  \/ clk_xclockdac_i2c_remove
  \/ \E rate \in SetRateInputs, io_ok \in BOOLEAN : SetRate(rate, io_ok)
  \/ \E rate \in RateInputs : RoundRate(rate)
  \/ RecalcRate

Spec == Init /\ [][Next]_vars

\* the clock with the machine driver as its only consumer
CardNext ==
  \/ \E fault \in ProbeFaults : xclockdac_i2c_probe(fault)
  \/ \E io_ok \in BOOLEAN : xclockdac_i2c_probe_default(io_ok)
  \/ clk_xclockdac_i2c_remove
  \/ \E of_node, i2s_node \in BOOLEAN,
        card_ret \in { "OK", "EPROBE_DEFER", "EINVAL" } :
       snd_rpi_xclockdac_probe(of_node, i2s_node, card_ret)
  \/ \E clk_ok, io_ok \in BOOLEAN : snd_rpi_xclockdac_probe_clk(clk_ok, io_ok)
  \/ snd_rpi_xclockdac_startup
  \/ \E rate \in constraint, io_ok \in BOOLEAN :
       snd_rpi_xclockdac_hw_params(rate, io_ok)

SpecCard == Init /\ [][CardNext]_vars

TypeOK ==
  /\ attached \in BOOLEAN
  /\ registered \in BOOLEAN
  /\ attached => registered
  /\ provider \in BOOLEAN
  /\ reg_value \in 0..255
  /\ hw_reg \in 0..255
  /\ sclk \in { "NULL", "clk", "ERR" }
  /\ card \in BOOLEAN
  /\ snd_pc \in { "idle", "clk_get", "no_node", "bound" }
  /\ constraint \subseteq Freqs
  /\ committed \in Freqs \cup { NoRate }
  /\ defaulted \in BOOLEAN

(***************************************************************************)
(* Properties.                                                              *)
(***************************************************************************)
\* the code the table pairs with frequency f
CodeOf(f) ==
  CHOOSE c \in Codes :
    \E i \in Entries : xclockdac_rates[i].out = f
                       /\ xclockdac_rates[i].reg_value = c

Abs(x) == IF x < 0 THEN 0 - x ELSE x

\* C1: when the register write of set_rate(F), F in the table, fails, set_rate
\* returns an error and the shadow (hence current_rate) is what it was before
\* the call.
C1_FailedWriteKeepsShadow ==
  (last.op = "set_rate" /\ last.rate \in Freqs /\ ~last.io_ok)
    => /\ last.ret # "OK"
       /\ reg_value = last.pre
       /\ xclockdac_recalc_rate(reg_value) = xclockdac_recalc_rate(last.pre)

\* C2: when the rate commit of hw_params fails or is not performed, hw_params
\* returns an error; a successful hw_params means the rate is confirmed on
\* the clock device.
C2_FailedCommitFailsHwParams ==
  (last.op = "hw_params" /\ last.ret = "OK")
    => /\ last.commit = "OK"
       /\ hw_reg = CodeOf(last.rate)

\* C3: while the clock device is attached, the shadow equals the byte held by
\* the device register.
C3_ShadowEqualsRegister ==
  attached => reg_value = hw_reg

\* C4: a set_rate(F) whose write succeeds writes the code paired with F to
\* register 0x2F, and current_rate returns F until the next set_rate;
\* set_rate(48000) writes 0b00001011.
C4_SetRateCommits ==
  /\ (last.op = "set_rate" /\ last.rate \in Freqs /\ last.ret = "OK")
       => /\ last.issued = << 47, CodeOf(last.rate) >>
          /\ hw_reg = CodeOf(last.rate)
          /\ (last.rate = 48000 => last.issued = << 47, 11 >>)
  /\ (last.op = "recalc_rate" /\ committed # NoRate)
       => last.val = committed

C4_Witness ==
  /\ last.op = "recalc_rate"
  /\ committed = 48000
  /\ last.val = 48000
  /\ hw_reg = 11

\* C5: set_rate of a rate that is not a table frequency fails with EINVAL,
\* issues no register write and leaves the shadow and current_rate alone.
C5_OffTableRejected ==
  (last.op = "set_rate" /\ last.rate \notin Freqs)
    => /\ last.ret = "EINVAL"
       /\ last.issued = NoWrite
       /\ reg_value = last.pre
       /\ xclockdac_recalc_rate(reg_value) = xclockdac_recalc_rate(last.pre)

C5_Witness ==
  /\ last.op = "set_rate"
  /\ last.rate = 45000
  /\ last.ret = "EINVAL"
  /\ reg_value = CodeOf(DEFAULT_RATE)

\* C6: round(R) is a table frequency closest to R: no table frequency is
\* strictly nearer to R.
C6_RoundIsNearest ==
  last.op = "round_rate"
    => /\ last.val \in Freqs
       /\ \A G \in Freqs : ~(Abs(G - last.rate) < Abs(last.val - last.rate))

C8_TableRatesFixed ==
  /\ Cardinality(Freqs) = 8
  /\ (last.op = "round_rate" /\ last.rate \in Freqs) => last.val = last.rate

C8_Witness ==
  /\ last.op = "round_rate"
  /\ last.rate = 11025
  /\ last.val = 11025

\* C9: round clamps: below 11025 it gives 11025, above 192000 it gives
\* 192000, and it never fails.
C9_RoundClamps ==
  last.op = "round_rate"
    => /\ last.ret = "OK"
       /\ (last.rate < 11025 => last.val = 11025)
       /\ (last.rate > 192000 => last.val = 192000)

C9_Witness ==
  /\ last.op = "round_rate"
  /\ last.rate = 192001
  /\ last.val = 192000

\* C10: the table pairs 8 strictly increasing frequencies with 8 distinct
\* codes, and looking a frequency's code up again gives the frequency back.
C10_TableBijection ==
  /\ Cardinality(Entries) = 8
  /\ \A i, j \in Entries :
       /\ (i < j => xclockdac_rates[i].out < xclockdac_rates[j].out)
       /\ (i # j => xclockdac_rates[i].reg_value # xclockdac_rates[j].reg_value)
  /\ \A f \in Freqs :
       xclockdac_recalc_rate(xclockdac_rates[FindRate(1, f)].reg_value) = f
  /\ (last.op = "set_rate" /\ last.rate \in Freqs /\ last.ret = "OK")
       => xclockdac_recalc_rate(reg_value) = last.rate

C10_Witness ==
  /\ last.op = "set_rate"
  /\ last.rate = 192000
  /\ last.ret = "OK"
  /\ xclockdac_recalc_rate(reg_value) = 192000

\* C11: current_rate returns 0 for a shadow that is no table code and the
\* code's frequency for one that is; it never fails, leaves the shadow alone
\* and issues no register access.
C11_RecalcRate ==
  last.op = "recalc_rate"
    => /\ last.ret = "OK"
       /\ (last.pre \notin Codes => last.val = 0)
       /\ (last.pre \in Codes
             => \E i \in Entries : /\ xclockdac_rates[i].reg_value = last.pre
                                   /\ xclockdac_rates[i].out = last.val)
       /\ reg_value = last.pre
       /\ last.issued = NoWrite
       /\ last.reads = 0

C11_Witness ==
  /\ last.op = "recalc_rate"
  /\ registered
  /\ last.pre \notin Codes
  /\ last.val = 0

\* C12: attach reads register 0x2F once and writes nothing before the clock
\* is registered; a failed read makes attach fail with no clock registered,
\* and when the clock's operations become available the shadow holds the
\* byte that was read.
C12_AttachReadsBack ==
  last.op = "probe_register"
    => /\ last.issued = NoWrite
       /\ (~last.io_ok => /\ last.ret # "OK"
                          /\ last.reads = 1
                          /\ ~registered
                          /\ ~attached)
       /\ (registered => /\ last.reads = 1
                         /\ reg_value = last.val
                         /\ reg_value = hw_reg)

C12_Witness ==
  /\ last.op = "probe_register"
  /\ registered
  /\ last.reads = 1
  /\ reg_value = 7
  /\ hw_reg = 7

\* C13: when applying the default rate at attach fails, the failure is
\* reported and the clock device is attached all the same.
C13_DefaultFailureKeepsAttached ==
  (last.op = "probe" /\ last.commit # "OK")
    => /\ last.ret # "OK"
       /\ registered
       /\ attached

\* C14: a default-rate set_rate precedes every stream open and parameter
\* commit, and when an attach returns without error the register holds the
\* code of 44100 Hz and current_rate is 44100.
C14_DefaultBeforeStreams ==
  /\ (last.op \in { "startup", "hw_params" }) => defaulted
  /\ (last.op \in { "probe", "snd_probe" } /\ last.ret = "OK")
       => /\ hw_reg = 3
          /\ xclockdac_recalc_rate(reg_value) = 44100

\* C15: when the first stream callback runs the machine driver holds a valid
\* handle of an attached clock, and no callback runs without a handle.
C15_ClockBeforeCallbacks ==
  /\ (last.op = "startup" /\ last.first) => (sclk = "clk" /\ attached)
  /\ (last.op \in { "startup", "hw_params" }) => sclk = "clk"

\* C16: when the I2S node, the card registration or the clock provider is not
\* ready, the machine driver's probe returns EPROBE_DEFER.
C16_MissingDependencyDefers ==
  (last.op \in { "snd_probe_card", "snd_probe" } /\ last.dep # "NONE")
    => last.ret = "EPROBE_DEFER"

\* C17: the rate list installed at stream open is exactly the set of the 8
\* table frequencies (as is the codec's), so no rate that passes it is
\* refused by set_rate with EINVAL.
C17_ConstraintIsTable ==
  /\ (last.op = "startup" \/ constraint # {})
       => /\ constraint = Freqs
          /\ constraint = { 11025, 22050, 44100, 48000, 88200, 96000,
                            176400, 192000 }
          /\ constraint = { tda1541a_dai_rates[i] :
                            i \in 1..Len(tda1541a_dai_rates) }
  /\ last.op = "hw_params" => last.commit # "EINVAL"

C17_Witness ==
  /\ last.op = "hw_params"
  /\ last.rate = 192000
  /\ last.commit = "OK"
  /\ constraint = Freqs

\* what rounding is to give, said without the scan: a table rate as it is,
\* the ends of the table outside of it, and between two neighbours the lower
\* one while the request is below their half-way point
RoundRef(r) ==
  IF r \in Freqs THEN r
  ELSE IF \A f \in Freqs : r < f THEN CHOOSE f \in Freqs : \A g \in Freqs : f <= g
  ELSE IF \A f \in Freqs : r > f THEN CHOOSE f \in Freqs : \A g \in Freqs : f >= g
  ELSE LET lo == CHOOSE f \in Freqs :
                   f < r /\ \A g \in Freqs : g < r => g <= f
           hi == CHOOSE f \in Freqs :
                   f > r /\ \A g \in Freqs : g > r => g >= f
       IN  IF lo + ((hi - lo) \div 2) > r THEN lo ELSE hi

\* C18: a round_rate step issues no register read or write and changes
\* neither the shadow nor the register; its result is a function of the
\* requested rate alone.
C18_RoundRateAdvisory ==
  [][ last'.op = "round_rate"
        => /\ reg_value' = reg_value
           /\ hw_reg' = hw_reg
           /\ last'.issued = NoWrite
           /\ last'.reads = 0
           /\ last'.val = RoundRef(last'.rate) ]_vars

C18_Witness ==
  /\ last.op = "round_rate"
  /\ last.rate = 45000
  /\ last.val = 44100
  /\ reg_value \notin Codes
  /\ reg_value = last.pre

\* C19: round(R) is a table frequency for every R, 0 included; rounding it
\* again changes nothing and set_rate does not refuse it with EINVAL.
C19_RoundGivesTableRate ==
  last.op = "round_rate"
    => /\ last.val \in Freqs
       /\ xclockdac_round_rate(last.val) = last.val
       /\ \A io_ok \in BOOLEAN :
            xclockdac_set_rate(reg_value, hw_reg, last.val, io_ok).ret
              # "EINVAL"

C19_Witness ==
  /\ last.op = "round_rate"
  /\ last.rate = 0
  /\ last.val = 11025

\* C20: once the clock driver's probe has returned 0 the shadow is a table
\* code, so current_rate is never 0.
C20_ShadowIsTableCode ==
  attached
    => /\ reg_value \in Codes
       /\ xclockdac_recalc_rate(reg_value) # 0
       /\ (last.op = "recalc_rate" => last.val # 0)

C20_Witness ==
  /\ attached
  /\ last.op = "set_rate"
  /\ last.ret = "EIO"
  /\ reg_value \in Codes
  /\ reg_value # hw_reg

====
